---------------------------- MODULE Spec2Model ----------------------------
(***************************************************************************)
(* Retrieval service (src/retrieval/app/main.py): the per-source FAISS     *)
(* index file and metadata file, the process-wide LOCK, and the /index and *)
(* /search handlers run by concurrent worker threads.                      *)
(*                                                                         *)
(* Vectors have small integer components.  faiss.normalize_L2 maps v to    *)
(* v/|v|; a unit vector is represented by the primitive integer vector of  *)
(* its direction (v divided by the gcd of its components), so two inputs   *)
(* normalise to the same value exactly when they are positive multiples of *)
(* each other, and the zero vector is left as it is.                       *)
(***************************************************************************)
EXTENDS Integers, Sequences, FiniteSets, TLC

(* ----------------------------- bounds ---------------------------------- *)
\* total number of requests the workers start in one behaviour
MaxRequests == 3

Threads == {"t1", "t2"}
Sources == {"A", "B"}
Free == "free"

(* ----------------------------- helpers --------------------------------- *)
Min(a, b) == IF a <= b THEN a ELSE b
Abs(x) == IF x < 0 THEN 0 - x ELSE x

RECURSIVE Gcd(_, _)
Gcd(a, b) == IF b = 0 THEN a ELSE Gcd(b, a % b)

RECURSIVE GcdSeq(_)
GcdSeq(v) == IF Len(v) = 0 THEN 0 ELSE Gcd(Abs(Head(v)), GcdSeq(Tail(v)))

\* faiss.normalize_L2 on one row: the zero vector is left unchanged
NormalizeL2(v) ==
    LET g == GcdSeq(v)
    IN  IF g = 0 THEN v ELSE [i \in 1..Len(v) |-> v[i] \div g]

(* ----------------------------- payloads -------------------------------- *)
EmbeddingIn(cid, vec, dim) == [chunk_id |-> cid, vector |-> vec, dim |-> dim]

ChunkMeta(cid, doc, i, text, md) ==
    [chunk_id |-> cid, document_id |-> doc, index |-> i, text |-> text, metadata |-> md]

IndexRequest(s, embs, chunks) ==
    [kind |-> "index", source_id |-> s, embeddings |-> embs, chunks |-> chunks]

Chunk1 == ChunkMeta("chunk-1", "doc-1", 0, "alpha", "{page:1}")
Chunk2 == ChunkMeta("chunk-2", "doc-1", 1, "beta", "{page:2}")

\* the embeddings/chunks pairs the clients send
IndexBatches ==
    { \* no embeddings
      << <<>>, << Chunk1 >> >>,
      \* first dim is zero
      << << EmbeddingIn("chunk-1", <<>>, 0) >>, << Chunk1 >> >>,
      \* dim=2 then dim=3
      << << EmbeddingIn("chunk-1", <<1, 0>>, 2), EmbeddingIn("chunk-2", <<1, 0, 0>>, 3) >>,
         << Chunk1, Chunk2 >> >>,
      \* second vector shorter than its declared dim
      << << EmbeddingIn("chunk-1", <<1, 0>>, 2), EmbeddingIn("chunk-2", <<1>>, 2) >>,
         << Chunk1, Chunk2 >> >>,
      \* the batch of tests/test_retrieval.py
      << << EmbeddingIn("chunk-1", <<1, 0>>, 2), EmbeddingIn("chunk-2", <<0, 1>>, 2) >>,
         << Chunk1, Chunk2 >> >>,
      \* one unnormalised 2-d vector whose chunk is not supplied
      << << EmbeddingIn("chunk-3", <<2, 2>>, 2) >>, << Chunk1 >> >>,
      \* the same 1-d vector for two different chunks
      << << EmbeddingIn("chunk-1", <<1>>, 1), EmbeddingIn("chunk-2", <<1>>, 1) >>,
         << Chunk1, Chunk2 >> >> }

IndexPayloads == { IndexRequest(s, b[1], b[2]) : s \in Sources, b \in IndexBatches }

NoVector == [given |-> FALSE, v |-> <<>>]
Vector(v) == [given |-> TRUE, v |-> v]

SearchRequest(s, qv, qt, k) ==
    [kind |-> "search", source_id |-> s, query_vector |-> qv, query_text |-> qt, top_k |-> k]

\* query_vector, query_text ("" stands for an absent or empty text) and top_k
SearchQueries ==
    { << Vector(<<1, 0>>), "", 1 >>,
      << Vector(<<1, 0>>), "", 3 >>,
      << Vector(<<1>>), "", 1 >>,
      << NoVector, "alpha", 3 >>,
      << NoVector, "", 1 >>,
      << Vector(<<1, 0>>), "", 0 >>,
      << NoVector, "", 0 >> }

SearchPayloads ==
    { SearchRequest(s, q[1], q[2], q[3]) : s \in Sources, q \in SearchQueries }

NoReq == [kind |-> "none"]

(* ----------------------------- responses ------------------------------- *)
NoResp == [status |-> 0, code |-> "NONE", indexed |-> 0, results |-> <<>>]

ApiError(code, status_code, details) ==
    [status |-> status_code, code |-> code, indexed |-> 0, results |-> <<>>,
     details |-> details]

IndexResponse(s, n) ==
    [status |-> 200, code |-> "OK", indexed |-> n, results |-> <<>>, source_id |-> s]

SearchResponse(results) == [status |-> 200, code |-> "OK", indexed |-> 0, results |-> results]

(* ----------------------------- stores ---------------------------------- *)
\* a FAISS index (file or in memory): dimension d and the stored rows
NoIndex == [exists |-> FALSE, d |-> 0, vecs |-> <<>>]
IndexFlatIP(dim) == [exists |-> TRUE, d |-> dim, vecs |-> <<>>]
\* fault: the new rows go before the stored ones
IndexAddFront(index, vectors) == [index EXCEPT !.vecs = vectors \o @]
\* index.add(vectors): the rows go after the rows already stored
IndexAdd(index, vectors) == [index EXCEPT !.vecs = @ \o vectors]

NoMeta == [exists |-> FALSE, items |-> <<>>]

\* no X-Request-Id header
NoHeader == "absent"
\* the X-Request-Id header a request comes with: the clients of source A
\* send one, the clients of the other sources send none
ClientHeader(p) == IF p.source_id = "A" THEN "req-1" ELSE NoHeader
\* str(uuid.uuid4()): an identifier no client has sent
Uuid4 == "uuid4"

\* fault: the middleware always makes a new identifier
RequestIdAlwaysNew(x_request_id) == Uuid4

\* lines 136-137: the identifier the middleware puts in request.state
RequestId(x_request_id) == IF x_request_id = NoHeader THEN Uuid4 ELSE x_request_id

\* x_request_id is the header the request came with, request_id is
\* request.state.request_id, embed_calls counts the httpx.post calls the
\* request has issued and embed_x_request_id is the header sent with them
NoLocals ==
    [index |-> NoIndex, query_vector |-> <<>>, metadata |-> <<>>, hits |-> <<>>,
     embed_calls |-> 0, x_request_id |-> NoHeader, request_id |-> "",
     embed_x_request_id |-> NoHeader]

\* lines 135-137: the frame of a request that came with the header h
Arrived(h) == [NoLocals EXCEPT !.x_request_id = h, !.request_id = RequestId(h)]
NoPre == [held |-> FALSE, idx |-> NoIndex, meta |-> NoMeta]

VARIABLES
    idx,      \* idx[s]: the file index_<s>.faiss
    meta,     \* meta[s]: the file meta_<s>.json
    lock,     \* LOCK: Free or the thread holding it
    pc,       \* pc[t]: where worker thread t is in its handler
    req,      \* req[t]: the payload thread t is serving
    loc,      \* loc[t]: the handler's local variables
    resp,     \* resp[t]: the response of t's last finished request
    pre,      \* pre[t]: both files of t's source as they were when t took LOCK
    origin,   \* origin[s][i]: the embedding (with its request's chunks) that row i
              \* of idx[s] was written for
    started,  \* requests started so far
    hdr       \* hdr[t]: the X-Request-Id header of the response in resp[t]

vars == <<idx, meta, lock, pc, req, loc, resp, pre, origin, started, hdr>>

Init ==
    /\ idx = [s \in Sources |-> NoIndex]
    /\ meta = [s \in Sources |-> NoMeta]
    /\ lock = Free
    /\ pc = [t \in Threads |-> "idle"]
    /\ req = [t \in Threads |-> NoReq]
    /\ loc = [t \in Threads |-> NoLocals]
    /\ resp = [t \in Threads |-> NoResp]
    /\ pre = [t \in Threads |-> NoPre]
    /\ origin = [s \in Sources |-> <<>>]
    /\ started = 0
    /\ hdr = [t \in Threads |-> NoHeader]

(* ----------------------------- files ------------------------------------ *)
load_meta(s) == IF meta[s].exists THEN meta[s].items ELSE <<>>
save_meta(items) == [exists |-> TRUE, items |-> items]

(* ----------------------------- LOCK ------------------------------------- *)
\* fault: acquire never blocks
LockIsFreeBroken == TRUE

\* threading.Lock: acquire blocks until no thread holds the lock
LockIsFree == lock = Free

Snapshot(s) == [held |-> TRUE, idx |-> idx[s], meta |-> meta[s]]

(* ----------------------------- /index ----------------------------------- *)
\* fault: only the first embedding is checked
ValidateIndexFirstOnly(p) ==
    IF Len(p.embeddings) = 0 THEN ApiError("EMPTY_EMBEDDINGS", 400, [chunk_id |-> ""])
    ELSE LET e == p.embeddings[1]
         IN  IF e.dim <= 0 THEN ApiError("INVALID_DIM", 400, [chunk_id |-> ""])
             ELSE IF Len(e.vector) # e.dim
                  THEN ApiError("DIMENSION_MISMATCH", 400, [chunk_id |-> e.chunk_id])
                  ELSE NoResp

\* lines 172-188: the checks made before anything else, in the code's order
ValidateIndex(p) ==
    IF Len(p.embeddings) = 0 THEN ApiError("EMPTY_EMBEDDINGS", 400, [chunk_id |-> ""])
    ELSE LET dim == p.embeddings[1].dim
             bad == { i \in 1..Len(p.embeddings) :
                        \/ p.embeddings[i].dim # dim
                        \/ Len(p.embeddings[i].vector) # dim }
             first == CHOOSE i \in bad : \A j \in bad : i <= j
         IN  IF dim <= 0 THEN ApiError("INVALID_DIM", 400, [chunk_id |-> ""])
             ELSE IF bad = {} THEN NoResp
             ELSE IF p.embeddings[first].dim # dim
                  THEN ApiError("MIXED_DIM", 400, [chunk_id |-> ""])
                  ELSE ApiError("DIMENSION_MISMATCH", 400,
                                [chunk_id |-> p.embeddings[first].chunk_id])

\* line 190: chunk_map, the last chunk with a given id wins
ChunkMapHas(chunks, cid) == \E i \in 1..Len(chunks) : chunks[i].chunk_id = cid
ChunkMapGet(chunks, cid) ==
    LET hit == { i \in 1..Len(chunks) : chunks[i].chunk_id = cid }
    IN  chunks[CHOOSE i \in hit : \A j \in hit : j <= i]

\* fault: the default of chunk_map.get does not carry the chunk id
MetaRecordBlankDefault(chunks, e) ==
    IF ChunkMapHas(chunks, e.chunk_id)
    THEN ChunkMapGet(chunks, e.chunk_id)
    ELSE [chunk_id |-> "", text |-> "", metadata |-> "{}"]

\* line 213: the record appended for one embedding
MetaRecord(chunks, e) ==
    IF ChunkMapHas(chunks, e.chunk_id)
    THEN ChunkMapGet(chunks, e.chunk_id)
    ELSE [chunk_id |-> e.chunk_id, text |-> "", metadata |-> "{}"]

\* fault: the records are the supplied chunks, in the order of the chunks
MetaRecordsFromChunks(p) == p.chunks

\* lines 212-214: the records of a batch, in the order of the embeddings
MetaRecords(p) == [i \in 1..Len(p.embeddings) |-> MetaRecord(p.chunks, p.embeddings[i])]

\* lines 191-192: the normalised rows of a batch, in the order of the embeddings
BatchVectors(p) == [i \in 1..Len(p.embeddings) |-> NormalizeL2(p.embeddings[i].vector)]

\* lines 151-162: the body of the 500 response gets request.state.request_id
Handled(t, r) ==
    IF r.code = "INTERNAL_ERROR"
    THEN [r EXCEPT !.details.request_id = loc[t].request_id]
    ELSE r

\* lines 138-139: the middleware puts the identifier on the response that
\* call_next returns; an exception that is not an ApiError passes through
\* call_next, and the 500 response is made outside the middleware
ResponseHeader(t, r) == IF r.code = "INTERNAL_ERROR" THEN NoHeader ELSE loc[t].request_id

\* the response goes out and the handler's frame is gone
Finish(t, r) ==
    /\ pc' = [pc EXCEPT ![t] = "done"]
    /\ req' = [req EXCEPT ![t] = NoReq]
    /\ resp' = [resp EXCEPT ![t] = Handled(t, r)]
    /\ hdr' = [hdr EXCEPT ![t] = ResponseHeader(t, r)]
    /\ loc' = [loc EXCEPT ![t] = NoLocals]

\* the rows of a batch with where they come from
BatchOrigin(p) ==
    [i \in 1..Len(p.embeddings) |-> [embedding |-> p.embeddings[i], chunks |-> p.chunks]]

CanStart(t) == pc[t] \in {"idle", "done"} /\ started < MaxRequests

\* a client posts to /index
IndexBegin(t) ==
    /\ CanStart(t)
    /\ \E p \in IndexPayloads :
          /\ req' = [req EXCEPT ![t] = p]
          /\ loc' = [loc EXCEPT ![t] = Arrived(ClientHeader(p))]
    /\ pc' = [pc EXCEPT ![t] = "i_validate"]
    /\ resp' = [resp EXCEPT ![t] = NoResp]
    /\ hdr' = [hdr EXCEPT ![t] = NoHeader]
    /\ started' = started + 1
    /\ UNCHANGED <<idx, meta, lock, pre, origin>>

\* lines 172-192: validation, chunk_map and the normalised rows
IndexValidate(t) ==
    /\ pc[t] = "i_validate"
    /\ LET err == ValidateIndex(req[t])
       IN  IF err.status # 0
           THEN Finish(t, err)
           ELSE /\ pc' = [pc EXCEPT ![t] = "i_lock"]
                /\ UNCHANGED <<req, resp, loc, hdr>>
    /\ UNCHANGED <<idx, meta, lock, pre, origin, started>>

\* fault: the index handler goes on without waiting for LOCK
IndexAcquireNoWait(t) ==
    /\ pc[t] = "i_lock"
    /\ lock' = t
    /\ pc' = [pc EXCEPT ![t] = "i_open"]
    /\ pre' = [pre EXCEPT ![t] = Snapshot(req[t].source_id)]
    /\ UNCHANGED <<idx, meta, req, loc, resp, origin, started, hdr>>

\* line 194: with LOCK
IndexAcquire(t) ==
    /\ pc[t] = "i_lock"
    /\ LockIsFree
    /\ lock' = t
    /\ pc' = [pc EXCEPT ![t] = "i_open"]
    /\ pre' = [pre EXCEPT ![t] = Snapshot(req[t].source_id)]
    /\ UNCHANGED <<idx, meta, req, loc, resp, origin, started, hdr>>

\* fault: the dimension of an existing index is not compared
OpenIndexNoCheck(s, dim) ==
    [ok |-> TRUE, index |-> IF idx[s].exists THEN idx[s] ELSE IndexFlatIP(dim)]

\* fault: an index of another dimension is replaced by a new one
OpenIndexRecreate(s, dim) ==
    [ok |-> TRUE,
     index |-> IF idx[s].exists /\ idx[s].d = dim THEN idx[s] ELSE IndexFlatIP(dim)]

\* lines 195-206: the index file if there is one, refused when its dimension
\* is not the batch's, else a new empty index
OpenIndex(s, dim) ==
    IF idx[s].exists
    THEN [ok |-> idx[s].d = dim, index |-> idx[s]]
    ELSE [ok |-> TRUE, index |-> IndexFlatIP(dim)]

\* fault: the rows are added and written before the dimension is compared
IndexOpenAddFirst(t) ==
    /\ pc[t] = "i_open"
    /\ LET s == req[t].source_id
           dim == req[t].embeddings[1].dim
           index == IndexAdd(OpenIndexNoCheck(s, dim).index, BatchVectors(req[t]))
       IN  /\ idx' = [idx EXCEPT ![s] = index]
           /\ origin' = [origin EXCEPT ![s] = @ \o BatchOrigin(req[t])]
           /\ IF ~OpenIndex(s, dim).ok
              THEN /\ resp' = [resp EXCEPT ![t] =
                          ApiError("INDEX_DIMENSION_MISMATCH", 409,
                                   [existing_dim |-> idx[s].d, incoming_dim |-> dim])]
                   /\ pc' = [pc EXCEPT ![t] = "i_exit"]
                   /\ loc' = loc
              ELSE /\ loc' = [loc EXCEPT ![t].index = index]
                   /\ pc' = [pc EXCEPT ![t] = "i_save_meta"]
                   /\ resp' = resp
    /\ UNCHANGED <<meta, lock, req, pre, started, hdr>>

\* lines 195-208: open the index, then index.add(vectors) in memory
IndexOpen(t) ==
    /\ pc[t] = "i_open"
    /\ LET dim == req[t].embeddings[1].dim
           opened == OpenIndex(req[t].source_id, dim)
       IN  IF ~opened.ok
           THEN /\ resp' = [resp EXCEPT ![t] =
                       ApiError("INDEX_DIMENSION_MISMATCH", 409,
                                [existing_dim |-> opened.index.d, incoming_dim |-> dim])]
                /\ pc' = [pc EXCEPT ![t] = "i_exit"]
                /\ loc' = loc
           ELSE /\ loc' = [loc EXCEPT ![t].index =
                              IndexAdd(opened.index, BatchVectors(req[t]))]
                /\ pc' = [pc EXCEPT ![t] = "i_write_index"]
                /\ resp' = resp
    /\ UNCHANGED <<idx, meta, lock, req, pre, origin, started, hdr>>

\* fault: the with block ends after faiss.write_index
IndexWriteIndexUnlocked(t) ==
    /\ pc[t] = "i_write_index"
    /\ idx' = [idx EXCEPT ![req[t].source_id] = loc[t].index]
    /\ origin' = [origin EXCEPT ![req[t].source_id] = @ \o BatchOrigin(req[t])]
    /\ lock' = Free
    /\ pc' = [pc EXCEPT ![t] = "i_save_meta"]
    /\ UNCHANGED <<meta, req, loc, resp, pre, started, hdr>>

\* line 209: faiss.write_index
IndexWriteIndex(t) ==
    /\ pc[t] = "i_write_index"
    /\ idx' = [idx EXCEPT ![req[t].source_id] = loc[t].index]
    /\ origin' = [origin EXCEPT ![req[t].source_id] = @ \o BatchOrigin(req[t])]
    /\ pc' = [pc EXCEPT ![t] = "i_save_meta"]
    /\ UNCHANGED <<meta, lock, req, loc, resp, pre, started, hdr>>

\* fault: the records already stored are dropped
AppendMetaOverwrite(items, records) == records

\* lines 212-214: meta_items.append, once per embedding
AppendMeta(items, records) == items \o records

RECURSIVE Stubs(_)
Stubs(n) == IF n <= 0 THEN <<>>
            ELSE Stubs(n - 1) \o << [chunk_id |-> "", text |-> "", metadata |-> "{}"] >>

\* variant: the metadata is padded with stubs up to the rows of the index
IndexSaveMetaRepair(t) ==
    /\ pc[t] = "i_save_meta"
    /\ LET s == req[t].source_id
           items == load_meta(s)
           missing == Len(idx[s].vecs) - Len(items) - Len(req[t].embeddings)
       IN  meta' = [meta EXCEPT ![s] =
                       save_meta(AppendMeta(items \o Stubs(missing), MetaRecords(req[t])))]
    /\ pc' = [pc EXCEPT ![t] = "i_exit"]
    /\ UNCHANGED <<idx, lock, req, loc, resp, pre, origin, started, hdr>>

\* fault: every source id is given the metadata file of source A
IndexSaveMetaShared(t) ==
    /\ pc[t] = "i_save_meta"
    /\ meta' = [meta EXCEPT !["A"] =
                   save_meta(AppendMeta(load_meta("A"), MetaRecords(req[t])))]
    /\ pc' = [pc EXCEPT ![t] = "i_exit"]
    /\ UNCHANGED <<idx, lock, req, loc, resp, pre, origin, started, hdr>>

\* lines 211-215: load_meta, append one record per embedding, save_meta
IndexSaveMeta(t) ==
    /\ pc[t] = "i_save_meta"
    /\ meta' = [meta EXCEPT ![req[t].source_id] =
                   save_meta(AppendMeta(load_meta(req[t].source_id), MetaRecords(req[t])))]
    /\ pc' = [pc EXCEPT ![t] = "i_exit"]
    /\ UNCHANGED <<idx, lock, req, loc, resp, pre, origin, started, hdr>>

\* fault: an exception leaves the block without releasing LOCK
IndexExitKeepsLockOnError(t) ==
    /\ pc[t] = "i_exit"
    /\ lock' = IF resp[t].status # 0 THEN lock ELSE Free
    /\ Finish(t, IF resp[t].status # 0 THEN resp[t]
                 ELSE IndexResponse(req[t].source_id, Len(req[t].embeddings)))
    /\ pre' = [pre EXCEPT ![t] = NoPre]
    /\ UNCHANGED <<idx, meta, origin, started>>

\* the end of the with block (by return or by exception), then line 217
IndexExit(t) ==
    /\ pc[t] = "i_exit"
    /\ lock' = Free
    /\ Finish(t, IF resp[t].status # 0 THEN resp[t]
                 ELSE IndexResponse(req[t].source_id, Len(req[t].embeddings)))
    /\ pre' = [pre EXCEPT ![t] = NoPre]
    /\ UNCHANGED <<idx, meta, origin, started>>

(* ----------------------------- /search ---------------------------------- *)
\* response.text[:500] (line 123)
BodyLimit == 500

Sum(f, S) ==
    LET RECURSIVE Acc(_)
        Acc(T) == IF T = {} THEN 0
                  ELSE LET x == CHOOSE y \in T : TRUE IN f[x] + Acc(T \ {x})
    IN  Acc(S)

Dot(a, b) == Sum([i \in 1..Len(a) |-> a[i] * b[i]], 1..Len(a))
\* squared length of the unit vector a row stands for is 1; the zero row stays zero
Norm2(a) == IF Dot(a, a) = 0 THEN 1 ELSE Dot(a, a)
Sign(x) == IF x > 0 THEN 1 ELSE IF x < 0 THEN 0 - 1 ELSE 0

\* the inner product of the unit vectors of rows a and b, as the reduced
\* fraction num/den of its square together with its sign
Score(a, b) ==
    LET d == Dot(a, b)
        n == Norm2(a) * Norm2(b)
        g == Gcd(d * d, n)
    IN  [sign |-> Sign(d), num |-> (d * d) \div g, den |-> n \div g]

ScoreKeyLess(x, y) == x.sign * x.num * y.den < y.sign * y.num * x.den
ScoreOne == [sign |-> 1, num |-> 1, den |-> 1]

\* the scores of the rows of an index against a query, row by row
Scores(index, query) == [i \in 1..Len(index.vecs) |-> Score(index.vecs[i], query)]

\* line 252: index.search(query, limit) on a flat inner-product index: the limit
\* best rows by descending score as (label, score) pairs, labels counted from 0,
\* padded with label -1 when the index holds fewer rows.  FAISS documents no
\* order among rows of equal score: every order is a possible result.
IndexSearch(index, query, limit) ==
    UNION {
        LET n == Len(sc)
            k == Min(limit, n)
            ranked == { h \in [1..k -> 1..n] :
                          /\ \A i, j \in 1..k : i # j => h[i] # h[j]
                          /\ \A i \in 1..k : \A j \in 1..k :
                                i < j => ~ScoreKeyLess(sc[h[i]], sc[h[j]])
                          /\ \A j \in 1..n :
                                (\A i \in 1..k : h[i] # j) =>
                                    \A i \in 1..k : ~ScoreKeyLess(sc[h[i]], sc[j]) }
        IN  { [r \in 1..limit |->
                 IF r <= k THEN [label |-> h[r] - 1, score |-> sc[h[r]]]
                 ELSE [label |-> 0 - 1, score |-> [sign |-> 0 - 1, num |-> 1, den |-> 0]]]
              : h \in ranked }
        : sc \in {Scores(index, query)} }

\* item.get(key, default)
ItemGet(item, key, default) == IF key \in DOMAIN item THEN item[key] ELSE default

\* fault: each result is put before the ones already built
RECURSIVE BuildResultsReversed(_, _)
BuildResultsReversed(hits, metadata) ==
    IF Len(hits) = 0 THEN <<>>
    ELSE LET h == Head(hits)
         IN  IF h.label < 0 \/ h.label >= Len(metadata)
             THEN BuildResultsReversed(Tail(hits), metadata)
             ELSE BuildResultsReversed(Tail(hits), metadata)
                  \o << [chunk_id |-> ItemGet(metadata[h.label + 1], "chunk_id", ""),
                          text |-> ItemGet(metadata[h.label + 1], "text", ""),
                          metadata |-> ItemGet(metadata[h.label + 1], "metadata", "{}"),
                          score |-> h.score] >>

\* fault: the hit on the first row of the index is skipped as well
RECURSIVE BuildResultsSkipZero(_, _)
BuildResultsSkipZero(hits, metadata) ==
    IF Len(hits) = 0 THEN <<>>
    ELSE LET h == Head(hits)
         IN  IF h.label <= 0 \/ h.label >= Len(metadata)
             THEN BuildResultsSkipZero(Tail(hits), metadata)
             ELSE << [chunk_id |-> ItemGet(metadata[h.label + 1], "chunk_id", ""),
                      text |-> ItemGet(metadata[h.label + 1], "text", ""),
                      metadata |-> ItemGet(metadata[h.label + 1], "metadata", "{}"),
                      score |-> h.score] >>
                  \o BuildResultsSkipZero(Tail(hits), metadata)

\* fault: the first hit outside metadata ends the loop
RECURSIVE BuildResultsBreak(_, _)
BuildResultsBreak(hits, metadata) ==
    IF Len(hits) = 0 THEN <<>>
    ELSE LET h == Head(hits)
         IN  IF h.label < 0 \/ h.label >= Len(metadata)
             THEN <<>>
             ELSE << [chunk_id |-> ItemGet(metadata[h.label + 1], "chunk_id", ""),
                      text |-> ItemGet(metadata[h.label + 1], "text", ""),
                      metadata |-> ItemGet(metadata[h.label + 1], "metadata", "{}"),
                      score |-> h.score] >>
                  \o BuildResultsBreak(Tail(hits), metadata)

\* lines 254-266: one result per hit whose label is a position of metadata
RECURSIVE BuildResults(_, _)
BuildResults(hits, metadata) ==
    IF Len(hits) = 0 THEN <<>>
    ELSE LET h == Head(hits)
         IN  IF h.label < 0 \/ h.label >= Len(metadata)
             THEN BuildResults(Tail(hits), metadata)
             ELSE << [chunk_id |-> ItemGet(metadata[h.label + 1], "chunk_id", ""),
                      text |-> ItemGet(metadata[h.label + 1], "text", ""),
                      metadata |-> ItemGet(metadata[h.label + 1], "metadata", "{}"),
                      score |-> h.score] >>
                  \o BuildResults(Tail(hits), metadata)

\* what the embedding service can answer to POST /embed
EmbedResponses ==
    { [kind |-> "raise", status_code |-> 0, body_len |-> 0, embeddings |-> <<>>],
      [kind |-> "http", status_code |-> 500, body_len |-> 600, embeddings |-> <<>>],
      [kind |-> "badjson", status_code |-> 200, body_len |-> 3, embeddings |-> <<>>],
      [kind |-> "http", status_code |-> 200, body_len |-> 20, embeddings |-> <<>>],
      [kind |-> "http", status_code |-> 200, body_len |-> 40,
       embeddings |-> << EmbeddingIn("query", <<1, 1>>, 2) >>],
      [kind |-> "http", status_code |-> 200, body_len |-> 40,
       embeddings |-> << EmbeddingIn("query", <<1>>, 1) >>] }

\* exc is the exception the handler caught; the response body does not show it
InternalError(exc) ==
    [status |-> 500, code |-> "INTERNAL_ERROR", indexed |-> 0, results |-> <<>>,
     details |-> [request_id |-> ""], exc |-> exc]

\* lines 111-131: the outcome of get_query_vector_from_text for one answer
QueryVectorFromText(r) ==
    IF r.kind = "raise" THEN [err |-> InternalError("ConnectError"), v |-> <<>>]
    ELSE IF r.status_code >= 400
    THEN [err |-> ApiError("EMBEDDING_CALL_FAILED", 502,
                           [status_code |-> r.status_code,
                            body_len |-> Min(r.body_len, BodyLimit)]),
          v |-> <<>>]
    ELSE IF r.kind = "badjson" THEN [err |-> InternalError("JSONDecodeError"), v |-> <<>>]
    ELSE IF Len(r.embeddings) = 0
    THEN [err |-> ApiError("EMPTY_QUERY_VECTOR", 502, [status_code |-> r.status_code]),
          v |-> <<>>]
    ELSE [err |-> NoResp, v |-> r.embeddings[1].vector]

\* a client posts to /search
SearchBegin(t) ==
    /\ CanStart(t)
    /\ \E p \in SearchPayloads :
          /\ req' = [req EXCEPT ![t] = p]
          /\ loc' = [loc EXCEPT ![t] = Arrived(ClientHeader(p))]
    /\ pc' = [pc EXCEPT ![t] = "s_check"]
    /\ resp' = [resp EXCEPT ![t] = NoResp]
    /\ hdr' = [hdr EXCEPT ![t] = NoHeader]
    /\ started' = started + 1
    /\ UNCHANGED <<idx, meta, lock, pre, origin>>

\* fault: the lock is taken before the embedding call
SearchCheckLockFirst(t) ==
    /\ pc[t] = "s_check"
    /\ LET p == req[t]
       IN  IF p.top_k <= 0
           THEN Finish(t, ApiError("INVALID_TOP_K", 400, [top_k |-> p.top_k]))
                /\ UNCHANGED <<lock, pre>>
           ELSE IF ~idx[p.source_id].exists
           THEN Finish(t, SearchResponse(<<>>)) /\ UNCHANGED <<lock, pre>>
           ELSE IF ~p.query_vector.given /\ p.query_text = ""
           THEN Finish(t, ApiError("MISSING_QUERY", 400, [top_k |-> p.top_k]))
                /\ UNCHANGED <<lock, pre>>
           ELSE IF p.query_vector.given
           THEN /\ loc' = [loc EXCEPT ![t].query_vector = p.query_vector.v]
                /\ pc' = [pc EXCEPT ![t] = "s_lock"]
                /\ UNCHANGED <<req, resp, lock, pre, hdr>>
           ELSE /\ LockIsFree
                /\ lock' = t
                /\ pre' = [pre EXCEPT ![t] = Snapshot(p.source_id)]
                /\ loc' = [loc EXCEPT ![t].query_vector = p.query_vector.v]
                /\ pc' = [pc EXCEPT ![t] = "s_embed"]
                /\ UNCHANGED <<req, resp, hdr>>
    /\ UNCHANGED <<idx, meta, origin, started>>

\* fault: only a negative top_k is refused
InvalidTopKNegative(top_k) == top_k < 0

\* line 222: if payload.top_k <= 0
InvalidTopK(top_k) == top_k <= 0

\* fault: the existence of the index file is not looked at
IndexFileExistsAlways(s) == TRUE

\* lines 225-226: index_path.exists()
IndexFileExists(s) == idx[s].exists

\* fault: one missing part of the query is enough to refuse it
MissingQueryEither(p) == ~p.query_vector.given \/ p.query_text = ""

\* line 229 and line 232: no query_vector and no (non-empty) query_text
MissingQuery(p) == ~p.query_vector.given /\ p.query_text = ""

\* fault: the query is looked at before the index file
SearchCheckQueryFirst(t) ==
    /\ pc[t] = "s_check"
    /\ LET p == req[t]
       IN  IF InvalidTopK(p.top_k)
           THEN Finish(t, ApiError("INVALID_TOP_K", 400, [top_k |-> p.top_k]))
           ELSE IF MissingQuery(p)
           THEN Finish(t, ApiError("MISSING_QUERY", 400, [top_k |-> p.top_k]))
           ELSE IF ~IndexFileExists(p.source_id)
           THEN Finish(t, SearchResponse(<<>>))
           ELSE /\ loc' = [loc EXCEPT ![t].query_vector = p.query_vector.v,
                                      ![t].embed_calls =
                                          IF p.query_vector.given THEN @ ELSE @ + 1,
                                      ![t].embed_x_request_id =
                                          IF p.query_vector.given THEN @
                                          ELSE loc[t].request_id]
                /\ pc' = [pc EXCEPT ![t] =
                            IF p.query_vector.given THEN "s_lock" ELSE "s_embed"]
                /\ UNCHANGED <<req, resp, hdr>>
    /\ UNCHANGED <<idx, meta, lock, pre, origin, started>>

\* lines 222-233: top_k, the existence of the index file and the presence of a
\* query are checked in this order; a text query starts the embedding call
SearchCheck(t) ==
    /\ pc[t] = "s_check"
    /\ LET p == req[t]
       IN  IF InvalidTopK(p.top_k)
           THEN Finish(t, ApiError("INVALID_TOP_K", 400, [top_k |-> p.top_k]))
           ELSE IF ~IndexFileExists(p.source_id)
           THEN Finish(t, SearchResponse(<<>>))
           ELSE IF MissingQuery(p)
           THEN Finish(t, ApiError("MISSING_QUERY", 400, [top_k |-> p.top_k]))
           ELSE /\ loc' = [loc EXCEPT ![t].query_vector = p.query_vector.v,
                                      ![t].embed_calls =
                                          IF p.query_vector.given THEN @ ELSE @ + 1,
                                      ![t].embed_x_request_id =
                                          IF p.query_vector.given THEN @
                                          ELSE loc[t].request_id]
                /\ pc' = [pc EXCEPT ![t] =
                            IF p.query_vector.given THEN "s_lock" ELSE "s_embed"]
                /\ UNCHANGED <<req, resp, hdr>>
    /\ UNCHANGED <<idx, meta, lock, pre, origin, started>>

\* fault: a failed embedding call is made a second time
SearchEmbedReturnRetry(t) ==
    /\ pc[t] = "s_embed"
    /\ \E r \in EmbedResponses :
         LET out == QueryVectorFromText(r)
         IN  IF out.err.status # 0 /\ loc[t].embed_calls < 2
             THEN /\ loc' = [loc EXCEPT ![t].embed_calls = @ + 1]
                  /\ UNCHANGED <<pc, req, resp, hdr>>
             ELSE IF out.err.status # 0
             THEN Finish(t, out.err)
             ELSE /\ loc' = [loc EXCEPT ![t].query_vector = out.v]
                  /\ pc' = [pc EXCEPT ![t] = "s_lock"]
                  /\ UNCHANGED <<req, resp, hdr>>
    /\ UNCHANGED <<idx, meta, lock, pre, origin, started>>

\* line 233: httpx.post returns (or raises) and the answer is decoded
SearchEmbedReturn(t) ==
    /\ pc[t] = "s_embed"
    /\ \E r \in EmbedResponses :
         LET out == QueryVectorFromText(r)
         IN  IF out.err.status # 0
             THEN Finish(t, out.err)
             ELSE /\ loc' = [loc EXCEPT ![t].query_vector = out.v]
                  /\ pc' = [pc EXCEPT ![t] = "s_lock"]
                  /\ UNCHANGED <<req, resp, hdr>>
    /\ UNCHANGED <<idx, meta, lock, pre, origin, started>>

\* fault: the search handler goes on without waiting for LOCK
SearchAcquireNoWait(t) ==
    /\ pc[t] = "s_lock"
    /\ lock' = t
    /\ pc' = [pc EXCEPT ![t] = "s_read_index"]
    /\ pre' = [pre EXCEPT ![t] = Snapshot(req[t].source_id)]
    /\ UNCHANGED <<idx, meta, req, loc, resp, origin, started, hdr>>

\* line 235: with LOCK
SearchAcquire(t) ==
    /\ pc[t] = "s_lock"
    /\ LockIsFree
    /\ lock' = t
    /\ pc' = [pc EXCEPT ![t] = "s_read_index"]
    /\ pre' = [pre EXCEPT ![t] = Snapshot(req[t].source_id)]
    /\ UNCHANGED <<idx, meta, req, loc, resp, origin, started, hdr>>

\* fault: the two dimensions change places in the details
QueryDimensionMismatchSwapped(index, query_vector) ==
    ApiError("QUERY_DIMENSION_MISMATCH", 400,
             [index_dim |-> Len(query_vector), query_dim |-> index.d])

\* lines 238-243: the error raised when the query does not fit the index
QueryDimensionMismatch(index, query_vector) ==
    ApiError("QUERY_DIMENSION_MISMATCH", 400,
             [index_dim |-> index.d, query_dim |-> Len(query_vector)])

\* fault: an empty metadata file is answered before the dimensions are compared
SearchReadIndexMetaFirst(t) ==
    /\ pc[t] = "s_read_index"
    /\ LET index == idx[req[t].source_id]
       IN  IF ~index.exists
           THEN /\ resp' = [resp EXCEPT ![t] = InternalError("RuntimeError")]
                /\ pc' = [pc EXCEPT ![t] = "s_exit"]
                /\ loc' = loc
           ELSE IF Len(load_meta(req[t].source_id)) = 0
           THEN /\ resp' = [resp EXCEPT ![t] = SearchResponse(<<>>)]
                /\ pc' = [pc EXCEPT ![t] = "s_exit"]
                /\ loc' = loc
           ELSE IF Len(loc[t].query_vector) # index.d
           THEN /\ resp' = [resp EXCEPT ![t] =
                       QueryDimensionMismatch(index, loc[t].query_vector)]
                /\ pc' = [pc EXCEPT ![t] = "s_exit"]
                /\ loc' = loc
           ELSE /\ loc' = [loc EXCEPT ![t].index = index]
                /\ pc' = [pc EXCEPT ![t] = "s_load_meta"]
                /\ resp' = resp
    /\ UNCHANGED <<idx, meta, lock, req, pre, origin, started, hdr>>

\* lines 236-243: faiss.read_index and the query dimension check
SearchReadIndex(t) ==
    /\ pc[t] = "s_read_index"
    /\ LET index == idx[req[t].source_id]
       IN  IF ~index.exists
           THEN /\ resp' = [resp EXCEPT ![t] = InternalError("RuntimeError")]
                /\ pc' = [pc EXCEPT ![t] = "s_exit"]
                /\ loc' = loc
           ELSE IF Len(loc[t].query_vector) # index.d
           THEN /\ resp' = [resp EXCEPT ![t] =
                       QueryDimensionMismatch(index, loc[t].query_vector)]
                /\ pc' = [pc EXCEPT ![t] = "s_exit"]
                /\ loc' = loc
           ELSE /\ loc' = [loc EXCEPT ![t].index = index]
                /\ pc' = [pc EXCEPT ![t] = "s_load_meta"]
                /\ resp' = resp
    /\ UNCHANGED <<idx, meta, lock, req, pre, origin, started, hdr>>

\* fault: a missing metadata file is created empty by the search
SearchLoadMetaCreates(t) ==
    /\ pc[t] = "s_load_meta"
    /\ LET metadata == load_meta(req[t].source_id)
       IN  IF Len(metadata) = 0
           THEN /\ resp' = [resp EXCEPT ![t] = SearchResponse(<<>>)]
                /\ loc' = loc
           ELSE /\ \E hits \in IndexSearch(loc[t].index,
                                           NormalizeL2(loc[t].query_vector),
                                           Min(req[t].top_k, Len(metadata))) :
                      loc' = [loc EXCEPT ![t].metadata = metadata, ![t].hits = hits]
                /\ resp' = resp
    /\ meta' = [meta EXCEPT ![req[t].source_id] =
                   IF @.exists THEN @ ELSE save_meta(<<>>)]
    /\ pc' = [pc EXCEPT ![t] = "s_exit"]
    /\ UNCHANGED <<idx, lock, req, pre, origin, started, hdr>>

\* lines 245-252: load_meta, the empty case, normalisation and index.search
SearchLoadMeta(t) ==
    /\ pc[t] = "s_load_meta"
    /\ LET metadata == load_meta(req[t].source_id)
       IN  IF Len(metadata) = 0
           THEN /\ resp' = [resp EXCEPT ![t] = SearchResponse(<<>>)]
                /\ loc' = loc
           ELSE /\ \E hits \in IndexSearch(loc[t].index,
                                           NormalizeL2(loc[t].query_vector),
                                           Min(req[t].top_k, Len(metadata))) :
                      loc' = [loc EXCEPT ![t].metadata = metadata, ![t].hits = hits]
                /\ resp' = resp
    /\ pc' = [pc EXCEPT ![t] = "s_exit"]
    /\ UNCHANGED <<idx, meta, lock, req, pre, origin, started, hdr>>

\* the end of the with block (by return or by exception), then lines 254-268
SearchExit(t) ==
    /\ pc[t] = "s_exit"
    /\ lock' = Free
    /\ Finish(t, IF resp[t].status # 0 THEN resp[t]
                 ELSE SearchResponse(BuildResults(loc[t].hits, loc[t].metadata)))
    /\ pre' = [pre EXCEPT ![t] = NoPre]
    /\ UNCHANGED <<idx, meta, origin, started>>

(* ----------------------------- the process ------------------------------ *)
\* the process dies and is started again, any number of times: the files
\* stay, everything in memory (the lock, the requests being served) is gone
Crash ==
    /\ lock' = Free
    /\ pc' = [t \in Threads |-> "idle"]
    /\ req' = [t \in Threads |-> NoReq]
    /\ loc' = [t \in Threads |-> NoLocals]
    /\ resp' = [t \in Threads |-> NoResp]
    /\ pre' = [t \in Threads |-> NoPre]
    /\ hdr' = [t \in Threads |-> NoHeader]
    /\ UNCHANGED <<idx, meta, origin, started>>

Next ==
    \E t \in Threads :
        \/ IndexBegin(t)
        \/ IndexValidate(t)
        \/ IndexAcquire(t)
        \/ IndexOpen(t)
        \/ IndexWriteIndex(t)
        \/ IndexSaveMeta(t)
        \/ IndexExit(t)
        \/ SearchBegin(t)
        \/ SearchCheck(t)
        \/ SearchEmbedReturn(t)
        \/ SearchAcquire(t)
        \/ SearchReadIndex(t)
        \/ SearchLoadMeta(t)
        \/ SearchExit(t)

\* crash-free executions
Spec == Init /\ [][Next]_vars

\* the steps of thread t that serve a request it has received
Serve(t) ==
    \/ IndexValidate(t)
    \/ IndexAcquire(t)
    \/ IndexOpen(t)
    \/ IndexWriteIndex(t)
    \/ IndexSaveMeta(t)
    \/ IndexExit(t)
    \/ SearchCheck(t)
    \/ SearchEmbedReturn(t)
    \/ SearchAcquire(t)
    \/ SearchReadIndex(t)
    \/ SearchLoadMeta(t)
    \/ SearchExit(t)

\* every worker thread keeps running, every embedding call returns, and a
\* thread waiting for LOCK gets it once it stays free
SpecFair == Spec /\ \A t \in Threads : WF_vars(Serve(t))

NextCrash == Next \/ Crash

\* executions in which the process may crash
SpecCrash == Init /\ [][NextCrash]_vars

(* ======================= properties of the service ====================== *)
Vecs(s) == idx[s].vecs
Items(s) == IF meta[s].exists THEN meta[s].items ELSE <<>>
IsPrefix(a, b) == Len(a) <= Len(b) /\ \A i \in 1..Len(a) : a[i] = b[i]
CriticalPcs == {"i_open", "i_write_index", "i_save_meta", "i_exit",
                "s_read_index", "s_load_meta", "s_exit"}
InCritical(t) == pc[t] \in CriticalPcs
BatchDim(p) == p.embeddings[1].dim

\* C1: in crash-free executions, whenever LOCK is free, the index file and the
\* metadata file of every source have the same length, and entry i of the
\* metadata is the record of the embedding row i of the index was written for
C1_Aligned ==
    lock = Free =>
        \A s \in Sources :
            /\ Len(Vecs(s)) = Len(Items(s))
            /\ Len(origin[s]) = Len(Vecs(s))
            /\ idx[s].exists = meta[s].exists
            /\ \A i \in 1..Len(Items(s)) :
                 /\ Vecs(s)[i] = NormalizeL2(origin[s][i].embedding.vector)
                 /\ Items(s)[i].chunk_id = origin[s][i].embedding.chunk_id
                 /\ Items(s)[i] = MetaRecord(origin[s][i].chunks, origin[s][i].embedding)

\* two batches in one collection, a batch in the other, nobody in the lock
C1_Witness ==
    /\ lock = Free
    /\ Len(Items("A")) >= 3
    /\ Len(Items("B")) >= 1
    /\ \E i \in 1..Len(Items("A")) : Items("A")[i].text = ""

\* C2: at most one request is between acquiring and releasing LOCK, whatever
\* the sources of the requests are, and that request holds LOCK
C2_MutualExclusion ==
    /\ \A t, u \in Threads : (InCritical(t) /\ InCritical(u)) => t = u
    /\ \A t \in Threads : InCritical(t) => lock = t

\* an index on A is writing while a request on B waits for the lock
C2_Witness ==
    \E t, u \in Threads :
        /\ pc[t] = "i_save_meta" /\ req[t].source_id = "A"
        /\ pc[u] \in {"i_lock", "s_lock"} /\ req[u].source_id = "B"

\* C3: a collection, once created with dimension D by an index request of
\* that dimension, keeps dimension D whatever happens later (crashes included),
\* and every stored row has D components
C3_DimensionFixed ==
    /\ [](\A s \in Sources : idx[s].exists =>
            /\ idx[s].d > 0
            /\ \A i \in 1..Len(Vecs(s)) : Len(Vecs(s)[i]) = idx[s].d)
    /\ [][\A s \in Sources :
            /\ idx[s].exists => (idx'[s].exists /\ idx'[s].d = idx[s].d)
            /\ (~idx[s].exists /\ idx'[s].exists) =>
                 \E t \in Threads : /\ pc[t] = "i_write_index"
                                    /\ req[t].source_id = s
                                    /\ idx'[s].d = BatchDim(req[t])]_vars

\* both dimensions in use and a request of the other dimension turned away
C3_Witness ==
    /\ idx["A"].exists /\ idx["A"].d = 2 /\ Len(Vecs("A")) >= 2
    /\ \E t \in Threads : resp[t].code = "INDEX_DIMENSION_MISMATCH"

\* C4: an index request of a dimension other than that of the collection it
\* finds ends with INDEX_DIMENSION_MISMATCH (409), and both files are what they
\* were when the request took the lock
C4_ConflictRejected ==
    [][\A t \in Threads :
         (/\ pc[t] = "i_exit" /\ pc'[t] = "done"
          /\ pre[t].idx.exists
          /\ pre[t].idx.d # BatchDim(req[t])) =>
            /\ resp'[t].status = 409
            /\ resp'[t].code = "INDEX_DIMENSION_MISMATCH"
            /\ resp'[t].indexed = 0
            /\ idx'[req[t].source_id] = pre[t].idx
            /\ meta'[req[t].source_id] = pre[t].meta]_vars

\* a 1-d batch was refused by a 2-d collection that still holds its two rows
C4_Witness ==
    \E t \in Threads :
        /\ pc[t] = "done"
        /\ resp[t].status = 409
        /\ resp[t].details.existing_dim = 2
        /\ resp[t].details.incoming_dim = 1
        /\ \E s \in Sources : Len(Vecs(s)) = 2 /\ Len(Items(s)) = 2

RejectCodes == {"EMPTY_EMBEDDINGS", "INVALID_DIM", "MIXED_DIM", "DIMENSION_MISMATCH"}

\* the four kinds of malformed batch, in the terms of the service's contract
RejectedBatch(p) ==
    \/ Len(p.embeddings) = 0
    \/ p.embeddings[1].dim <= 0
    \/ \E i \in 1..Len(p.embeddings) : p.embeddings[i].dim # p.embeddings[1].dim
    \/ \E i \in 1..Len(p.embeddings) : Len(p.embeddings[i].vector) # p.embeddings[i].dim

\* C5: a malformed batch is answered with one of the four validation errors
\* (400) in the step that validates it, that step changes no file and takes no
\* lock, and these errors have no other origin
C5_RejectedIndexesNothing ==
    [][\A t \in Threads :
         /\ (pc[t] = "i_validate" /\ pc'[t] # "i_validate" /\ RejectedBatch(req[t])) =>
               /\ pc'[t] = "done"
               /\ resp'[t].status = 400
               /\ resp'[t].code \in RejectCodes
               /\ Len(req[t].embeddings) = 0 => resp'[t].code = "EMPTY_EMBEDDINGS"
               /\ idx' = idx /\ meta' = meta /\ lock' = lock
         /\ (pc[t] # "done" /\ pc'[t] = "done" /\ resp'[t].code \in RejectCodes) =>
               /\ pc[t] = "i_validate"
               /\ RejectedBatch(req[t])
               /\ idx' = idx /\ meta' = meta /\ lock' = lock]_vars

\* a mixed batch and a short vector were both refused and there is no collection
C5_Witness ==
    /\ \E t, u \in Threads : /\ resp[t].code = "MIXED_DIM" /\ pc[t] = "done"
                             /\ resp[u].code = "DIMENSION_MISMATCH" /\ pc[u] = "done"
    /\ \A s \in Sources : ~idx[s].exists /\ ~meta[s].exists

\* C6: a successful index of n embeddings into a collection of m entries
\* leaves m + n entries in both files, the first m as they were, the last n
\* those of the request in its order, and answers indexed = n
C6_Appended ==
    [][\A t \in Threads :
         (pc[t] = "i_exit" /\ pc'[t] = "done" /\ resp'[t].status = 200) =>
            LET s == req[t].source_id
                m == Len(pre[t].idx.vecs)
                n == Len(req[t].embeddings)
            IN  /\ n > 0
                /\ Len(pre[t].meta.items) = m
                /\ Len(idx'[s].vecs) = m + n
                /\ Len(meta'[s].items) = m + n
                /\ \A i \in 1..m : /\ idx'[s].vecs[i] = pre[t].idx.vecs[i]
                                   /\ meta'[s].items[i] = pre[t].meta.items[i]
                /\ \A i \in 1..n :
                     /\ idx'[s].vecs[m + i] = NormalizeL2(req[t].embeddings[i].vector)
                     /\ meta'[s].items[m + i].chunk_id = req[t].embeddings[i].chunk_id
                /\ resp'[t].indexed = n
                /\ resp'[t].source_id = s]_vars

\* the two-row batch went into a collection that held one row
C6_Witness ==
    \E t \in Threads :
        /\ pc[t] = "done" /\ resp[t].status = 200 /\ resp[t].indexed = 2
        /\ Len(Vecs("A")) = 3 /\ Vecs("A")[1] = <<1, 1>>

\* C7: in crash-free executions both files of a collection only grow at the
\* end and never disappear; a step that changes them is a write of an index
\* request that holds the lock and has met no error, and a request that has
\* written ends with a success
C7_AppendOnly ==
    [][/\ \A s \in Sources :
            /\ IsPrefix(idx[s].vecs, idx'[s].vecs)
            /\ IsPrefix(Items(s), IF meta'[s].exists THEN meta'[s].items ELSE <<>>)
            /\ idx[s].exists => idx'[s].exists
            /\ meta[s].exists => meta'[s].exists
            /\ (idx'[s] # idx[s] \/ meta'[s] # meta[s]) =>
                 \E t \in Threads :
                    /\ lock = t
                    /\ req[t].kind = "index"
                    /\ req[t].source_id = s
                    /\ pc[t] \in {"i_write_index", "i_save_meta"}
                    /\ resp[t].status = 0
       /\ \A t \in Threads :
            (/\ pc[t] = "i_exit" /\ pc'[t] = "done"
             /\ \/ idx[req[t].source_id] # pre[t].idx
                \/ meta[req[t].source_id] # pre[t].meta) =>
                resp'[t].status = 200]_vars

\* a collection that grew twice was then searched, and is still whole
C7_Witness ==
    /\ Len(Vecs("A")) >= 3
    /\ Len(Items("A")) = Len(Vecs("A"))
    /\ \E t \in Threads : /\ pc[t] = "done" /\ resp[t].status = 200
                          /\ Len(resp[t].results) >= 1

\* C8: in one index request the index file is written first and the metadata
\* file second, both while the request holds the lock, and the lock is not
\* released between the two writes
C8_PersistOrder ==
    [][\A s \in Sources :
         /\ idx'[s] # idx[s] =>
              \E t \in Threads :
                 /\ lock = t /\ lock' = t
                 /\ req[t].kind = "index" /\ req[t].source_id = s
                 /\ idx[s] = pre[t].idx
                 /\ meta[s] = pre[t].meta /\ meta'[s] = meta[s]
         /\ meta'[s] # meta[s] =>
              \E t \in Threads :
                 /\ lock = t /\ lock' = t
                 /\ req[t].kind = "index" /\ req[t].source_id = s
                 /\ idx[s] # pre[t].idx /\ idx'[s] = idx[s]
                 /\ idx[s].vecs = pre[t].idx.vecs \o BatchVectors(req[t])
                 /\ meta[s] = pre[t].meta
         /\ \A t \in Threads :
              (lock = t /\ lock' # t /\ req[t].kind = "index" /\ req[t].source_id = s) =>
                 \/ idx[s] = pre[t].idx /\ meta[s] = pre[t].meta
                 \/ idx[s] # pre[t].idx /\ meta[s] # pre[t].meta]_vars

\* between the two writes, with another request waiting for the lock
C8_Witness ==
    \E t, u \in Threads :
        /\ pc[t] = "i_save_meta" /\ lock = t
        /\ idx[req[t].source_id] # pre[t].idx
        /\ meta[req[t].source_id] = pre[t].meta
        /\ pc[u] \in {"i_lock", "s_lock"}

Gap(s) == Len(Vecs(s)) - Len(Items(s))
MidWrite(t, s) == pc[t] = "i_save_meta" /\ req[t].source_id = s
\* the gap a crash in this state would leave: that of the files, less the rows
\* whose records the request holding the lock is about to write
SettledGap(s) ==
    IF \E t \in Threads : MidWrite(t, s)
    THEN Gap(s) - Len(req[CHOOSE t \in Threads : MidWrite(t, s)].embeddings)
    ELSE Gap(s)

\* the process crashes while t is between its two writes to the files of s
CrashBetweenWrites(t, s) == MidWrite(t, s) /\ pc'[t] = "idle"

\* a gap left by a crash does not close: what a crash would leave never
\* shrinks, and a successful index of s ends with the gap it found
GapNeverCloses(s) ==
    /\ SettledGap(s)' >= SettledGap(s)
    /\ \A t \in Threads :
         (/\ pc[t] = "i_exit" /\ pc'[t] = "done" /\ resp'[t].status = 200
          /\ req[t].source_id = s) =>
            Len(idx'[s].vecs) - Len(meta'[s].items)
               = Len(pre[t].idx.vecs) - Len(pre[t].meta.items)

EmbeddingInFlight(t) == pc[t] = "s_embed"

\* C10: while the embedding call of a text search is in flight the request
\* does not hold the lock
C10_EmbedOutsideLock ==
    \A t \in Threads : EmbeddingInFlight(t) => (lock # t /\ ~pre[t].held)

\* another request is inside the lock while the embedding call is pending
C10_Witness ==
    \E t, u \in Threads :
        /\ EmbeddingInFlight(t)
        /\ lock = u /\ InCritical(u)

(* --------------------------------- C11 ---------------------------------- *)
\* t is a search request with a positive top_k that receives its response in
\* this step
SearchAnswered(t) ==
    /\ req[t].kind = "search"
    /\ req[t].top_k > 0
    /\ pc[t] # "done"
    /\ pc'[t] = "done"

\* no index request on s has ever succeeded: success comes after save_meta,
\* and a metadata file once written stays
NeverIndexed(s) == ~meta[s].exists

\* C11 as stated: a search with a positive top_k on a source id for which no
\* index call has ever succeeded is answered with 200 and an empty result list
C11_Original ==
    [][\A t \in Threads :
         (SearchAnswered(t) /\ NeverIndexed(req[t].source_id))
            => resp'[t] = SearchResponse(<<>>)]_vars

\* C11 amended: a search with a positive top_k that finds no index file for
\* its source id is answered at once with 200 and an empty result list,
\* whatever its query, and touches neither the lock nor a file
C11_NoIndexFileEmpty ==
    [][\A t \in Threads :
         (/\ pc[t] = "s_check"
          /\ pc'[t] # "s_check"
          /\ req[t].top_k > 0
          /\ ~idx[req[t].source_id].exists)
            => /\ pc'[t] = "done"
               /\ resp'[t] = SearchResponse(<<>>)
               /\ UNCHANGED <<idx, meta, lock>>]_vars

\* a search was answered with the empty list while no index file existed
C11_Witness ==
    \E t \in Threads :
        /\ pc[t] = "done"
        /\ resp[t] = SearchResponse(<<>>)
        /\ \A s \in Sources : ~idx[s].exists

(* --------------------------------- C12 ---------------------------------- *)
\* t is a search that leaves the critical section with a result list
SearchReturns(t) == pc[t] = "s_exit" /\ pc'[t] = "done" /\ resp'[t].status = 200

Aligned(s) == Len(Vecs(s)) = Len(Items(s))

\* the first result is the chunk cid with score 1.0
FirstIs(results, cid) ==
    /\ Len(results) >= 1
    /\ results[1].chunk_id = cid
    /\ results[1].score = ScoreOne

\* the chunk id row i of the collection of s was indexed for
ChunkOfRow(s, i) == origin[s][i].embedding.chunk_id

\* C12 as stated, for a collection that holds exactly one accepted batch: a
\* search whose query is any vector of that batch returns the chunk of that
\* vector as its first result with score 1.0
C12_Original ==
    [][\A t \in Threads :
         SearchReturns(t) =>
            \A p \in IndexPayloads :
               (/\ p.source_id = req[t].source_id
                /\ origin[p.source_id] = BatchOrigin(p)
                /\ Items(p.source_id) = MetaRecords(p))
                  => \A i \in 1..Len(p.embeddings) :
                        loc[t].query_vector = p.embeddings[i].vector
                           => FirstIs(resp'[t].results, p.embeddings[i].chunk_id)]_vars

\* C12 amended: in an aligned collection a search whose query is a stored
\* vector other than zero returns the chunk of that vector as its first
\* result with score 1.0, provided every stored vector of the same direction
\* belongs to the same chunk
C12_OwnVectorFirst ==
    [][\A t \in Threads :
         SearchReturns(t) =>
            LET s == req[t].source_id
                q == loc[t].query_vector
            IN  \A i \in 1..Len(Vecs(s)) :
                   (/\ Aligned(s)
                    /\ Dot(q, q) # 0
                    /\ NormalizeL2(q) = Vecs(s)[i]
                    /\ \A j \in 1..Len(Vecs(s)) :
                          Vecs(s)[j] = Vecs(s)[i] => ChunkOfRow(s, j) = ChunkOfRow(s, i))
                      => FirstIs(resp'[t].results, ChunkOfRow(s, i))]_vars

\* a search has found, in a collection of two batches, the row of the second
\* batch that its query was indexed as
C12_Witness ==
    \E t \in Threads :
        /\ pc[t] = "s_exit"
        /\ resp[t].status = 0
        /\ LET s == req[t].source_id
               results == BuildResults(loc[t].hits, loc[t].metadata)
           IN  /\ Aligned(s)
               /\ \E i \in 2..Len(Vecs(s)) :
                     /\ origin[s][i].embedding.vector = loc[t].query_vector
                     /\ origin[s][1].chunks # origin[s][i].chunks
                     /\ loc[t].hits[1].label = i - 1
                     /\ FirstIs(results, ChunkOfRow(s, i))

(* --------------------------------- C13 ---------------------------------- *)
\* the cosine of stored row i of s with the query q
RowScore(s, i, q) == Score(Vecs(s)[i], NormalizeL2(q))

\* the results of t are the best rows of the whole aligned collection, each
\* with its own chunk and its exact score, best first
BestFirst(t) ==
    LET s == req[t].source_id
        q == loc[t].query_vector
        hits == loc[t].hits
        results == resp'[t].results
        n == Len(results)
    IN  /\ n = Len(hits)
        /\ \A r \in 1..n :
              /\ hits[r].label + 1 \in 1..Len(Vecs(s))
              /\ results[r].score = RowScore(s, hits[r].label + 1, q)
              /\ results[r].chunk_id = ChunkOfRow(s, hits[r].label + 1)
        /\ \A a, b \in 1..n : a # b => hits[a].label # hits[b].label
        /\ \A a, b \in 1..n : a < b => ~ScoreKeyLess(results[a].score, results[b].score)
        /\ \A i \in 1..Len(Vecs(s)) :
              (\A r \in 1..n : hits[r].label + 1 # i)
                 => \A r \in 1..n : ~ScoreKeyLess(results[r].score, RowScore(s, i, q))

\* results of equal score come in the order their rows were inserted
TiesByInsertion(t) ==
    LET hits == loc[t].hits
    IN  \A a, b \in 1..Len(hits) :
           (a < b /\ hits[a].score = hits[b].score) => hits[a].label < hits[b].label

\* C13 as stated: the results are the highest-cosine entries of all stored
\* vectors in descending score order, equal scores in insertion order
C13_Original ==
    [][\A t \in Threads :
         (SearchReturns(t) /\ Aligned(req[t].source_id))
            => BestFirst(t) /\ TiesByInsertion(t)]_vars

\* C13 amended: the results of a search of an aligned collection are the
\* highest-cosine entries of all stored vectors, exact, in descending score
\* order; nothing is fixed about the order of entries of equal score
C13_BestFirst ==
    [][\A t \in Threads :
         (SearchReturns(t) /\ Aligned(req[t].source_id)) => BestFirst(t)]_vars

\* a search has ranked rows of different scores and left a stored row out
C13_Witness ==
    \E t \in Threads :
        /\ pc[t] = "s_exit"
        /\ resp[t].status = 0
        /\ Aligned(req[t].source_id)
        /\ Len(loc[t].hits) >= 2
        /\ Len(Vecs(req[t].source_id)) > Len(loc[t].hits)
        /\ \E r \in 2..Len(loc[t].hits) :
              ScoreKeyLess(loc[t].hits[r].score, loc[t].hits[r - 1].score)

(* --------------------------------- C14 ---------------------------------- *)
\* t is a search that receives a success response in this step
SearchSucceeds(t) ==
    /\ req[t].kind = "search"
    /\ pc[t] # "done"
    /\ pc'[t] = "done"
    /\ resp'[t].status = 200

\* C14: a successful search returns at most min(top_k, number of indexed
\* entries) results, and exactly that many from an aligned collection
C14_ResultCount ==
    [][\A t \in Threads :
         SearchSucceeds(t) =>
            LET s == req[t].source_id
                n == Len(resp'[t].results)
            IN  /\ n <= Min(req[t].top_k, Len(Items(s)))
                /\ n <= Min(req[t].top_k, Len(Vecs(s)))
                /\ Aligned(s) => n = Min(req[t].top_k, Len(Items(s)))]_vars

\* top_k cut the results of one search short of the collection, and the
\* collection cut the results of another short of its top_k
C14_Witness ==
    \E t, u \in Threads :
        /\ pc[t] = "done" /\ resp[t].status = 200 /\ Len(resp[t].results) = 1
        /\ pc[u] = "s_exit" /\ resp[u].status = 0
        /\ req[u].top_k = 3
        /\ Aligned(req[u].source_id)
        /\ Len(BuildResults(loc[u].hits, loc[u].metadata)) = 2

(* --------------------------------- C15 ---------------------------------- *)
\* C15: a search of an existing collection whose query vector has another
\* length than the stored dimension fails with QUERY_DIMENSION_MISMATCH (400)
\* carrying both dimensions, returns no results and releases the lock
C15_QueryDimensionMismatch ==
    [][\A t \in Threads :
         LET s == req[t].source_id
             q == loc[t].query_vector
         IN  /\ (/\ pc[t] = "s_read_index"
                 /\ pc'[t] # "s_read_index"
                 /\ idx[s].exists
                 /\ Len(q) # idx[s].d)
                   => /\ pc'[t] = "s_exit"
                      /\ resp'[t].code = "QUERY_DIMENSION_MISMATCH"
                      /\ UNCHANGED <<idx, meta>>
             /\ (pc[t] = "s_exit" /\ pc'[t] = "done" /\ Len(q) # pre[t].idx.d)
                   => /\ pre[t].idx = idx[s]
                      /\ resp'[t].status = 400
                      /\ resp'[t].code = "QUERY_DIMENSION_MISMATCH"
                      /\ resp'[t].details =
                            [index_dim |-> idx[s].d, query_dim |-> Len(q)]
                      /\ resp'[t].results = <<>>
                      /\ lock = t
                      /\ lock' = Free
                      /\ UNCHANGED <<idx, meta>>]_vars

\* a search was refused because its query of length 1 does not fit the index
\* of dimension 2, and the lock is free again
C15_Witness ==
    \E t \in Threads :
        /\ pc[t] = "done"
        /\ resp[t].code = "QUERY_DIMENSION_MISMATCH"
        /\ resp[t].details.index_dim = 2
        /\ resp[t].details.query_dim = 1
        /\ lock = Free

(* --------------------------------- C16 ---------------------------------- *)
\* C16: every search with top_k <= 0 is refused with INVALID_TOP_K (400),
\* whether or not the collection exists and whatever its query, without the
\* lock being taken and without an embedding call
C16_InvalidTopK ==
    [][\A t \in Threads :
         (pc[t] = "s_check" /\ pc'[t] # "s_check" /\ req[t].top_k <= 0)
            => /\ pc'[t] = "done"
               /\ resp'[t].status = 400
               /\ resp'[t].code = "INVALID_TOP_K"
               /\ resp'[t].results = <<>>
               /\ loc[t].embed_calls = 0
               /\ ~pre[t].held
               /\ lock # t
               /\ UNCHANGED <<idx, meta, lock>>]_vars

\* INVALID_TOP_K was answered for a source id that has a collection while
\* another request held the lock
C16_Witness ==
    \E t, u \in Threads :
        /\ pc[t] = "done"
        /\ resp[t].code = "INVALID_TOP_K"
        /\ lock = u
        /\ \A s \in Sources : idx[s].exists

(* --------------------------------- C17 ---------------------------------- *)
\* t passes the checks of lines 222-232 in this step with a positive top_k
\* and neither a query vector nor a non-empty query text
ChecksNoQuery(t) ==
    /\ pc[t] = "s_check"
    /\ pc'[t] # "s_check"
    /\ req[t].top_k > 0
    /\ ~req[t].query_vector.given
    /\ req[t].query_text = ""

RefusedMissingQuery(t) ==
    /\ pc'[t] = "done"
    /\ resp'[t].status = 400
    /\ resp'[t].code = "MISSING_QUERY"
    /\ resp'[t].results = <<>>

\* C17 as stated: every search with a positive top_k and neither a query
\* vector nor a non-empty query text is refused with MISSING_QUERY (400)
C17_Original ==
    [][\A t \in Threads : ChecksNoQuery(t) => RefusedMissingQuery(t)]_vars

\* C17 amended: every search with a positive top_k and neither a query vector
\* nor a non-empty query text against a source id whose index file exists is
\* refused with MISSING_QUERY (400), and no other search is
C17_MissingQuery ==
    [][\A t \in Threads :
         /\ (ChecksNoQuery(t) /\ idx[req[t].source_id].exists)
               => RefusedMissingQuery(t)
         /\ (pc[t] # "done" /\ pc'[t] = "done" /\ resp'[t].code = "MISSING_QUERY")
               => ChecksNoQuery(t) /\ idx[req[t].source_id].exists]_vars

\* MISSING_QUERY was answered while some source id had no index file
C17_Witness ==
    \E t \in Threads :
        /\ pc[t] = "done"
        /\ resp[t].status = 400
        /\ resp[t].code = "MISSING_QUERY"
        /\ \E s \in Sources : ~idx[s].exists

(* --------------------------------- C18 ---------------------------------- *)
ValidationCodes ==
    RejectCodes \cup {"INVALID_TOP_K", "MISSING_QUERY", "QUERY_DIMENSION_MISMATCH"}

\* t is answered with the error code c in this step
Refused(t, c) == pc[t] # "done" /\ pc'[t] = "done" /\ resp'[t].code = c

\* the answer of this step was decided in the request's first check, with
\* the lock never taken by t and no file changed
DecidedUpFront(t) ==
    /\ pc[t] \in {"i_validate", "s_check"}
    /\ ~pre[t].held
    /\ lock # t
    /\ UNCHANGED <<idx, meta, lock>>

\* C18 as stated: every validation failure of index and search is decided
\* before the lock is taken and before a file is looked at, and changes no file
C18_Original ==
    [][\A t \in Threads : \A c \in ValidationCodes :
         Refused(t, c) => DecidedUpFront(t)]_vars

\* C18 amended: the four batch errors and INVALID_TOP_K are decided from the
\* payload alone before the lock is taken or a file looked at; MISSING_QUERY
\* is decided without the lock but after the index file was found to exist;
\* QUERY_DIMENSION_MISMATCH is decided under the lock from the index file read
\* there; and no request that fails validation changes a file
C18_ValidationOrder ==
    [][\A t \in Threads :
         /\ \A c \in RejectCodes :
               Refused(t, c) =>
                  /\ DecidedUpFront(t)
                  /\ pc[t] = "i_validate"
                  /\ resp'[t] = ValidateIndex(req[t])
         /\ Refused(t, "INVALID_TOP_K") =>
               /\ DecidedUpFront(t)
               /\ pc[t] = "s_check"
               /\ req[t].top_k <= 0
         /\ Refused(t, "MISSING_QUERY") =>
               /\ DecidedUpFront(t)
               /\ pc[t] = "s_check"
               /\ idx[req[t].source_id].exists
         /\ Refused(t, "QUERY_DIMENSION_MISMATCH") =>
               /\ pc[t] = "s_exit"
               /\ lock = t
               /\ pre[t].held
               /\ pre[t].idx = idx[req[t].source_id]
               /\ Len(loc[t].query_vector) # idx[req[t].source_id].d
               /\ UNCHANGED <<idx, meta>>
         /\ (req[t].kind = "search" /\ pc'[t] # pc[t]) => UNCHANGED <<idx, meta>>
         /\ (pc[t] = "i_validate" /\ pc'[t] # pc[t]) => UNCHANGED <<idx, meta>>]_vars

\* a query dimension mismatch has been found by a search that holds the lock,
\* after a batch was refused by another request
C18_Witness ==
    \E t, u \in Threads :
        /\ pc[t] = "s_exit"
        /\ resp[t].code = "QUERY_DIMENSION_MISMATCH"
        /\ lock = t
        /\ pc[u] = "done"
        /\ resp[u].code \in RejectCodes

(* --------------------------------- C19 ---------------------------------- *)
\* the request of t has passed the checks of lines 222-232 and is a search
\* by text
TextSearchUnderWay(t) ==
    /\ pc[t] \in {"s_embed", "s_lock", "s_read_index", "s_load_meta", "s_exit"}
    /\ ~req[t].query_vector.given

\* C19: a search makes at most one embedding call, and none when it carries
\* a query vector, when its top_k is invalid or when the collection does not
\* exist; a search by text that passes the checks makes exactly one
C19_OneEmbeddingCall ==
    \A t \in Threads :
        /\ loc[t].embed_calls <= 1
        /\ loc[t].embed_calls = 1 =>
              /\ req[t].kind = "search"
              /\ ~req[t].query_vector.given
              /\ req[t].query_text # ""
              /\ req[t].top_k > 0
              /\ idx[req[t].source_id].exists
        /\ pc[t] = "s_embed" => loc[t].embed_calls = 1
        /\ TextSearchUnderWay(t) => loc[t].embed_calls = 1

\* a search by text runs on the vector of its one embedding call while a
\* search by vector has got as far without any
C19_Witness ==
    \E t, u \in Threads :
        /\ pc[t] = "s_exit"
        /\ ~req[t].query_vector.given
        /\ loc[t].embed_calls = 1
        /\ pc[u] = "s_lock"
        /\ req[u].query_vector.given
        /\ loc[u].embed_calls = 0

(* --------------------------------- C20 ---------------------------------- *)
\* the embedding call of t fails in this step by an error status, by an
\* answer without embeddings or by a payload that cannot be decoded (a call
\* that never got an answer is not among these)
EmbeddingFails(t) ==
    /\ pc[t] = "s_embed"
    /\ pc'[t] = "done"
    /\ resp'[t].code = "INTERNAL_ERROR" => resp'[t].exc # "ConnectError"

\* C20: every such failure of the embedding call ends the search with 502,
\* EMBEDDING_CALL_FAILED with the upstream status and at most 500 characters
\* of the body or EMPTY_QUERY_VECTOR, the lock not taken and no file changed
C20_EmbeddingFailure502 ==
    [][\A t \in Threads :
         EmbeddingFails(t) =>
            /\ resp'[t].status = 502
            /\ resp'[t].code \in {"EMBEDDING_CALL_FAILED", "EMPTY_QUERY_VECTOR"}
            /\ resp'[t].code = "EMBEDDING_CALL_FAILED" =>
                  /\ resp'[t].details.status_code >= 400
                  /\ resp'[t].details.body_len <= BodyLimit
            /\ ~pre[t].held
            /\ lock # t
            /\ UNCHANGED <<idx, meta, lock>>]_vars

(* --------------------------------- C21 ---------------------------------- *)
\* the chunks of the payload p whose chunk_id is cid
Supplied(p, cid) == { p.chunks[i] : i \in { j \in 1..Len(p.chunks) : p.chunks[j].chunk_id = cid } }

\* the record with only the chunk id, empty text and empty metadata
StubRecord(cid) == [chunk_id |-> cid, text |-> "", metadata |-> "{}"]

\* C21: an index request that has passed validation appends exactly one
\* metadata record per embedding, in order: the supplied chunk of the same
\* chunk_id if there is one, otherwise the stub of that chunk_id; it then
\* succeeds, and the metadata file has grown by as much as the index file
C21_OneRecordPerEmbedding ==
    [][\A t \in Threads :
         /\ (pc[t] = "i_save_meta" /\ pc'[t] # "i_save_meta") =>
               LET p == req[t]
                   s == p.source_id
                   m == Len(Items(s))
                   n == Len(p.embeddings)
               IN  /\ pc'[t] = "i_exit"
                   /\ resp'[t].status = 0
                   /\ meta'[s].exists
                   /\ Len(meta'[s].items) = m + n
                   /\ Len(idx[s].vecs) - Len(pre[t].idx.vecs) = n
                   /\ \A i \in 1..m : meta'[s].items[i] = Items(s)[i]
                   /\ \A i \in 1..n :
                         LET cid == p.embeddings[i].chunk_id
                             rec == meta'[s].items[m + i]
                         IN  IF Supplied(p, cid) # {}
                             THEN rec \in Supplied(p, cid)
                             ELSE rec = StubRecord(cid)
         /\ (pc[t] = "i_exit" /\ pc'[t] = "done" /\ resp[t].status = 0) =>
               /\ resp'[t].status = 200
               /\ resp'[t].indexed = Len(req[t].embeddings)]_vars

\* a request whose chunk was not supplied has succeeded and its stub stands
\* behind the records of an earlier batch
C21_Witness ==
    \E t \in Threads : \E s \in Sources :
        /\ pc[t] = "done"
        /\ resp[t].status = 200
        /\ resp[t].indexed = 1
        /\ resp[t].source_id = s
        /\ Len(Items(s)) = 3
        /\ Len(Vecs(s)) = 3
        /\ Items(s)[3] = StubRecord("chunk-3")
        /\ Items(s)[1] = Chunk1

(* --------------------------------- C22 ---------------------------------- *)
\* this step belongs to a search request of t (its arrival included)
SearchStep(t) ==
    /\ pc'[t] # pc[t]
    /\ req[t].kind = "search" \/ req'[t].kind = "search"

\* C22: no step of a search request, whether the request succeeds or fails,
\* creates an index file or a metadata file or changes the content of one
C22_SearchReadOnly ==
    [][\A t \in Threads : SearchStep(t) => UNCHANGED <<idx, meta>>]_vars

\* one search has failed under the lock and another has gone through its
\* critical section on a collection whose metadata file is missing
C22_Witness ==
    \E t, u \in Threads : \E s \in Sources :
        /\ pc[t] = "done"
        /\ resp[t].code = "QUERY_DIMENSION_MISMATCH"
        /\ pc[u] = "s_exit"
        /\ req[u].kind = "search"
        /\ req[u].source_id = s
        /\ idx[s].exists
        /\ ~meta[s].exists

(* --------------------------------- C23 ---------------------------------- *)
\* the positions of hits whose label is a position of metadata
InRange(hits, metadata) ==
    { r \in 1..Len(hits) : hits[r].label >= 0 /\ hits[r].label < Len(metadata) }

\* C23: a search whose index.search has run succeeds whatever labels came
\* back; its results are exactly the hits whose label is a position of the
\* metadata, in the order of the hits, each with the record at that position,
\* so there may be fewer than min(top_k, metadata length) of them
C23_SkipOutOfRange ==
    [][\A t \in Threads :
         (pc[t] = "s_exit" /\ pc'[t] = "done" /\ resp[t].status = 0) =>
            LET hits == loc[t].hits
                metadata == loc[t].metadata
                results == resp'[t].results
                kept == InRange(hits, metadata)
                \* the hit behind result number r
                hitOf(r) == CHOOSE h \in kept : Cardinality({ g \in kept : g <= h }) = r
            IN  /\ resp'[t].status = 200
                /\ metadata = Items(req[t].source_id)
                /\ Len(results) = Cardinality(kept)
                /\ Len(results) <= Min(req[t].top_k, Len(metadata))
                /\ \A r \in 1..Len(results) :
                      /\ results[r].chunk_id = metadata[hits[hitOf(r)].label + 1].chunk_id
                      /\ results[r].text = metadata[hits[hitOf(r)].label + 1].text
                      /\ results[r].score = hits[hitOf(r)].score]_vars

\* the index file is longer than the metadata file and a search is about to
\* return a hit that stands behind a hit on a row without metadata
C23_Witness ==
    \E t \in Threads :
        /\ pc[t] = "s_exit"
        /\ resp[t].status = 0
        /\ Len(Vecs(req[t].source_id)) > Len(loc[t].metadata)
        /\ Len(loc[t].hits) = 2
        /\ loc[t].hits[1].label >= Len(loc[t].metadata)
        /\ loc[t].hits[2].label < Len(loc[t].metadata)
        /\ Len(BuildResults(loc[t].hits, loc[t].metadata)) = 1
        /\ Min(req[t].top_k, Len(loc[t].metadata)) = 2

(* --------------------------------- C24 ---------------------------------- *)
\* the correlation identifier of the request t is serving: the one it came
\* with, or the one generated for it when it came with none
Correlation(t) ==
    IF loc[t].x_request_id = NoHeader THEN loc[t].request_id ELSE loc[t].x_request_id

\* C24: every response to an index or search request carries the request's
\* correlation identifier (a generated one, which no client sent, when the
\* request had none): in the X-Request-Id header, or in the details of the
\* body when it is the 500 response; and the embedding call of a search by
\* text is sent with that identifier
C24_CorrelationId ==
    [][\A t \in Threads :
         /\ (pc[t] # "done" /\ pc'[t] = "done") =>
               /\ loc[t].x_request_id = NoHeader => loc[t].request_id = Uuid4
               /\ IF resp'[t].code = "INTERNAL_ERROR"
                  THEN resp'[t].details.request_id = Correlation(t)
                  ELSE hdr'[t] = Correlation(t)
         /\ pc'[t] = "s_embed" =>
               /\ loc'[t].embed_calls = 1
               /\ loc'[t].embed_x_request_id = Correlation(t)
               /\ loc'[t].x_request_id = loc[t].x_request_id]_vars

\* a search by text that came without identifier was answered 500 after its
\* embedding call, with a generated identifier in the body, and another
\* response carries the identifier its client sent in the header
C24_Witness ==
    \E t, u \in Threads :
        /\ pc[t] = "done"
        /\ resp[t].code = "INTERNAL_ERROR"
        /\ resp[t].details.request_id = Uuid4
        /\ hdr[t] = NoHeader
        /\ pc[u] = "done"
        /\ hdr[u] = "req-1"

(* --------------------------------- C25 ---------------------------------- *)
\* o is made of whole batches of accepted index requests for s, one after
\* the other
RECURSIVE WholeBatches(_, _)
WholeBatches(s, o) ==
    \/ o = <<>>
    \/ \E p \in IndexPayloads :
          /\ p.source_id = s
          /\ Len(p.embeddings) > 0
          /\ IsPrefix(BatchOrigin(p), o)
          /\ WholeBatches(s, SubSeq(o, Len(p.embeddings) + 1, Len(o)))

\* C25: index requests for one source id that run at the same time lose no
\* update and do not interleave: the request that takes the lock finds the
\* files as the last holder left them, nobody else changes them while it
\* holds the lock, and when it succeeds both files are what it found followed
\* by its whole batch in request order; so the batches stand in the files as
\* contiguous blocks in the order in which the requests took the lock
C25_NoLostUpdate ==
    [][\A t \in Threads :
         /\ (pc[t] = "i_lock" /\ pc'[t] = "i_open") =>
               /\ pre'[t].idx = idx[req[t].source_id]
               /\ pre'[t].meta = meta[req[t].source_id]
               /\ \A s \in Sources : WholeBatches(s, origin[s])
         /\ (pc[t] \in {"i_open", "i_write_index", "i_save_meta", "i_exit"}
                /\ pc'[t] = pc[t]) =>
               /\ idx'[req[t].source_id] = idx[req[t].source_id]
               /\ meta'[req[t].source_id] = meta[req[t].source_id]
         /\ (pc[t] = "i_exit" /\ pc'[t] = "done" /\ resp'[t].status = 200) =>
               LET s == req[t].source_id
               IN  /\ Vecs(s) = pre[t].idx.vecs \o BatchVectors(req[t])
                   /\ Items(s) = pre[t].meta.items \o MetaRecords(req[t])
                   /\ SubSeq(origin[s], Len(pre[t].idx.vecs) + 1, Len(origin[s]))
                         = BatchOrigin(req[t])
                   /\ WholeBatches(s, origin[s])
                   /\ UNCHANGED <<idx, meta>>]_vars

\* a request has appended its batch behind the batch of an earlier request
\* and is about to answer while a third request with a batch of the same
\* dimension for the same source id waits for the lock
C25_Witness ==
    \E t, u \in Threads :
        /\ pc[t] = "i_exit"
        /\ resp[t].status = 0
        /\ pc[u] = "i_lock"
        /\ req[u].source_id = req[t].source_id
        /\ BatchDim(req[u]) = BatchDim(req[t])
        /\ req[u] # req[t]
        /\ Len(pre[t].idx.vecs) > 0
        /\ Vecs(req[t].source_id) = pre[t].idx.vecs \o BatchVectors(req[t])

(* --------------------------------- C26 ---------------------------------- *)
\* C26: of index requests with different dimensions that race for a fresh
\* source id, the one that takes the lock first finds no index file, creates
\* the collection with its own dimension and its own entries only, and
\* succeeds; the dimension then stays, so a request of another dimension that
\* takes the lock later is refused with INDEX_DIMENSION_MISMATCH (409) and
\* leaves both files as it found them
C26_DimensionRace ==
    [][\A t \in Threads :
         /\ \A s \in Sources :
               idx[s].exists => idx'[s].exists /\ idx'[s].d = idx[s].d
         /\ (pc[t] = "i_exit" /\ pc'[t] = "done") =>
               LET s == req[t].source_id
                   dim == BatchDim(req[t])
                   found == pre[t].idx
               IN  /\ ~found.exists =>
                         /\ resp'[t].status = 200
                         /\ idx[s].d = dim
                         /\ Vecs(s) = BatchVectors(req[t])
                         /\ Items(s) = MetaRecords(req[t])
                   /\ (found.exists /\ found.d # dim) =>
                         /\ resp'[t].status = 409
                         /\ resp'[t].code = "INDEX_DIMENSION_MISMATCH"
                         /\ resp'[t].details = [existing_dim |-> found.d, incoming_dim |-> dim]
                         /\ idx[s] = found
                         /\ meta[s] = pre[t].meta
                         /\ \A i \in 1..Len(origin[s]) : origin[s][i].embedding.dim = found.d
                   /\ resp'[t].status = 200 <=> (found.exists => found.d = dim)
                   /\ UNCHANGED <<idx, meta>>]_vars

\* two requests were made, both to index into the same fresh source id; one
\* was answered 200 and the other 409, and the collection holds the entries
\* of the first in its dimension
C26_Witness ==
    \E t, u \in Threads : \E s \in Sources :
        /\ started = 2
        /\ pc[t] = "done"
        /\ resp[t].status = 200
        /\ resp[t].indexed > 0
        /\ resp[t].source_id = s
        /\ pc[u] = "done"
        /\ resp[u].code = "INDEX_DIMENSION_MISMATCH"
        /\ resp[u].details.existing_dim = idx[s].d
        /\ Len(Vecs(s)) = resp[t].indexed
        /\ Len(Items(s)) = resp[t].indexed
        /\ \A r \in Sources \ {s} : ~idx[r].exists

(* --------------------------------- C27 ---------------------------------- *)
\* an index request of another thread for the source t searches is under way
IndexUnderWay(t) ==
    \E u \in Threads \ {t} :
        /\ req[u].kind = "index"
        /\ req[u].source_id = req[t].source_id
        /\ pc[u] # "i_validate"

\* C27: in crash-free executions a search reads the index file and the
\* metadata file within one hold of the lock, during which neither changes;
\* what it reads is made of whole batches, as many records as rows, so of a
\* batch indexed at the same time it sees all in both files or nothing
C27_SearchSeesWholeBatches ==
    [][\A t \in Threads :
         LET s == req[t].source_id
         IN  /\ (pc[t] = "s_read_index" /\ pc'[t] = "s_load_meta") =>
                   /\ lock = t /\ lock' = t
                   /\ loc'[t].index = idx[s]
                   /\ pre[t].idx = idx[s]
                   /\ pre[t].meta = meta[s]
             /\ (pc[t] = "s_load_meta" /\ pc'[t] = "s_exit") =>
                   /\ lock = t /\ lock' = t
                   /\ pre[t].idx = idx[s]
                   /\ pre[t].meta = meta[s]
                   /\ loc[t].index = idx[s]
                   /\ Len(load_meta(s)) = Len(loc[t].index.vecs)
                   /\ WholeBatches(s, origin[s])
                   /\ \A i \in 1..Len(origin[s]) :
                         load_meta(s)[i] = MetaRecord(origin[s][i].chunks, origin[s][i].embedding)
                   /\ Len(load_meta(s)) > 0 => loc'[t].metadata = load_meta(s)
             /\ (pc[t] \in {"s_read_index", "s_load_meta", "s_exit"}) =>
                   UNCHANGED <<idx, meta>>]_vars

\* a search has read both files of a collection while an index request for
\* the same source id waits for the lock
C27_Witness ==
    \E t \in Threads :
        /\ pc[t] = "s_exit"
        /\ resp[t].status = 0
        /\ Len(loc[t].metadata) = Len(loc[t].index.vecs)
        /\ \E u \in Threads :
              /\ pc[u] = "i_lock"
              /\ req[u].source_id = req[t].source_id
        /\ IndexUnderWay(t)

(* --------------------------------- C28 ---------------------------------- *)
\* t is serving a request
Busy(t) == pc[t] \notin {"idle", "done"}

\* t leaves a critical section in this step
LeavesCritical(t) == pc[t] \in {"i_exit", "s_exit"} /\ pc'[t] # pc[t]

\* every way out of a critical section frees the lock
C28_Released == [][\A t \in Threads : LeavesCritical(t) => lock = t /\ lock' = Free]_vars

\* while a request is being served some thread can take a step
C28_NoDeadlock == (\E t \in Threads : Busy(t)) => ENABLED (\E t \in Threads : Serve(t))

\* C28: the lock is released on every exit from a critical section, the
\* failures and the early return included; no reachable state with a request
\* under way is a deadlock; and with every thread running and every embedding
\* call returning, every request is answered in the end
C28_LockReleasedAndProgress ==
    /\ C28_Released
    /\ []C28_NoDeadlock
    /\ \A t \in Threads : []<>~Busy(t)

\* INDEX_DIMENSION_MISMATCH and QUERY_DIMENSION_MISMATCH were both answered,
\* the lock is free and no request is under way
C28_Witness ==
    \E t, u \in Threads :
        /\ pc[t] = "done"
        /\ resp[t].code = "INDEX_DIMENSION_MISMATCH"
        /\ pc[u] = "done"
        /\ resp[u].code = "QUERY_DIMENSION_MISMATCH"
        /\ lock = Free

(* --------------------------------- C29 ---------------------------------- *)
\* t answers its search request in this step
SearchAnswers(t) == req[t].kind = "search" /\ pc[t] # "done" /\ pc'[t] = "done"

\* the answers a failed resolution of the query text gives
ResolutionFailures == {"EMBEDDING_CALL_FAILED", "EMPTY_QUERY_VECTOR", "INTERNAL_ERROR"}

\* the answer of t, decided by the first check in the order of precedence that
\* applies to its request and to the files as they are when the step is taken
DecidedInOrder(t) ==
    LET p == req[t]
        s == p.source_id
        r == resp'[t]
    IN  IF p.top_k <= 0
        THEN r.code = "INVALID_TOP_K" /\ pc[t] = "s_check"
        ELSE IF pc[t] = "s_check" /\ ~idx[s].exists
        THEN r.status = 200 /\ r.results = <<>>
        ELSE IF ~p.query_vector.given /\ p.query_text = ""
        THEN r.code = "MISSING_QUERY" /\ pc[t] = "s_check"
        ELSE IF pc[t] = "s_embed"
        THEN /\ ~p.query_vector.given
             /\ r.code \in ResolutionFailures
        ELSE /\ pc[t] = "s_exit"
             /\ idx[s].exists
             /\ IF Len(loc[t].query_vector) # idx[s].d
                THEN r.code = "QUERY_DIMENSION_MISMATCH"
                ELSE IF Len(load_meta(s)) = 0
                THEN r.status = 200 /\ r.results = <<>>
                ELSE r.status = 200

\* C29: search answers by the first check that applies, in the order
\* INVALID_TOP_K, empty result for an absent index file, MISSING_QUERY, failed
\* query resolution, QUERY_DIMENSION_MISMATCH, empty result for an empty
\* metadata file; a wrong-length query on a collection with an index file and
\* no metadata is refused with QUERY_DIMENSION_MISMATCH
C29_CheckPrecedence ==
    [][\A t \in Threads : SearchAnswers(t) => DecidedInOrder(t)]_vars

\* a search with a query of the wrong length leaves its critical section with
\* QUERY_DIMENSION_MISMATCH on a collection whose index file exists and whose
\* metadata is empty
C29_Witness ==
    \E t \in Threads :
        /\ pc[t] = "s_exit"
        /\ req[t].kind = "search"
        /\ resp[t].code = "QUERY_DIMENSION_MISMATCH"
        /\ idx[req[t].source_id].exists
        /\ Len(load_meta(req[t].source_id)) = 0

(* --------------------------------- C30 ---------------------------------- *)
\* t takes a step of an index request
IndexStep(t) ==
    /\ pc'[t] # pc[t]
    /\ req[t].kind = "index" \/ req'[t].kind = "index"

\* the source id of the index request t is serving in this step
IndexStepSource(t) == IF req[t].kind = "index" THEN req[t].source_id ELSE req'[t].source_id

\* result r is the record of an embedding that was indexed under source id s
IndexedUnder(s, r) ==
    \E i \in 1..Len(origin[s]) :
        LET item == MetaRecord(origin[s][i].chunks, origin[s][i].embedding)
        IN  /\ r.chunk_id = item.chunk_id
            /\ r.text = item.text
            /\ r.metadata = item.metadata

\* C30: a step of an index request for one source id, whether the request
\* succeeds or fails, leaves the index file and the metadata file of every
\* other source id as they were, and every result of a search on a source id
\* is the record of an embedding indexed under that source id
C30_SourcesIsolated ==
    [][\A t \in Threads :
         /\ IndexStep(t) =>
               \A s \in Sources \ {IndexStepSource(t)} :
                   idx'[s] = idx[s] /\ meta'[s] = meta[s]
         /\ (SearchAnswers(t) /\ resp'[t].status = 200) =>
               \A k \in 1..Len(resp'[t].results) :
                   IndexedUnder(req[t].source_id, resp'[t].results[k])]_vars

\* two collections hold entries, and a search has returned results that were
\* all indexed under one source id and none under the other
C30_Witness ==
    \E t \in Threads : \E a, b \in Sources :
        /\ a # b
        /\ pc[t] = "done"
        /\ resp[t].status = 200
        /\ Len(resp[t].results) > 0
        /\ Len(Items(a)) > 0
        /\ \A k \in 1..Len(resp[t].results) :
              /\ IndexedUnder(b, resp[t].results[k])
              /\ ~IndexedUnder(a, resp[t].results[k])

=============================================================================
